---------------------------- MODULE Spec2Model ----------------------------
(***************************************************************************)
(* Model of hexbackup's panel script (marzban_panel.py): one non-          *)
(* interactive invocation of main(), dispatching to run_full_backup or     *)
(* run_restore_process, together with the part of the host it acts on:     *)
(* the live filesystem, the docker compose service group, the containers   *)
(* docker ps lists, and the archive handed to restore.                     *)
(*                                                                         *)
(* A path is a sequence of its components (<<"opt","marzban">> is          *)
(* /opt/marzban, <<>> is /).  A filesystem, a staging directory and the    *)
(* member list of an archive are sets of nodes [p, d, c]: path, is it a    *)
(* directory, and a tag standing for a file's content.                     *)
(***************************************************************************)
EXTENDS Integers, Sequences, FiniteSets, TLC

VARIABLES
    logged,         \* the messages written to the log and the console
    pc,             \* position of the process in main / backup / restore
    command,        \* sys.argv[1]
    argPath,        \* sys.argv[2] of do-restore: "none", "missing", "present"
    config,         \* what load_config_file() returns (config.json)
    live,           \* the live filesystem of the host
    live0,          \* the live filesystem when the process started
    running,        \* services of the compose group that are up
    hostContainers, \* the containers of the host, in docker ps order
    zip,            \* the archive file given to do-restore
    temp_dir,       \* restore: content of the staging directory
    tempExists,     \* restore: the staging directory exists
    container_name, \* result of find_database_container()
    calls,          \* run_marzban_command calls so far: [action, ok, site, status]
    trace,          \* steps executed so far: [step, ok]
    failedAt,       \* the step whose failure raised, "none" if none did
    error,          \* the exception raised, "none" if none
    result,         \* return value of run_restore_process or of
                    \* setup_cronjob_flow: "none", "True", "False"
    exitCode,       \* process exit code, -1 while running
    backup_temp_dir,\* backup: content of the staging directory
    backupTempExists,\* backup: the staging directory exists
    zipfile_,       \* backup: the archive file in /tmp, NoFile if absent
    uploaded,       \* backup: the archive as handed to the upload, NoFile if not
    todo,           \* backup: databases still to dump
    dumped,         \* backup: databases dumped so far
    imported,       \* restore: the dump files imported so far
    bot_tasks,      \* bot: the handler tasks that wait for a panel process
    conversational_states, \* bot: what the next message of the admin is taken for
    backup_interval,\* config.json: telegram.backup_interval, "none" if unset
    crontab,        \* the lines of the crontab
    forwarded,      \* bot: the documents handed to do-restore so far
    rejected,       \* bot: the documents the restore pre-check turned down
    db_type,        \* what get-db-type prints, "none" if nothing printed
    crontab0,       \* history: the crontab before the first command
    last_backup_time,  \* bot: last_backup_time of bot_state.json
    event           \* bot, history: the update or the process exit that the
                    \* last step handled

vars == <<logged, pc, command, argPath, config, live, live0, running, hostContainers,
          zip, temp_dir, tempExists, container_name, calls, trace, failedAt,
          error, result, exitCode, backup_temp_dir, backupTempExists,
          zipfile_, uploaded, todo, dumped, imported, bot_tasks,
          conversational_states, backup_interval, crontab, forwarded, rejected,
          db_type, crontab0, last_backup_time, event>>

-----------------------------------------------------------------------------
(* Paths and filesystems *)

Node(p, d, c) == [p |-> p, d |-> d, c |-> c]
File(p, c) == Node(p, FALSE, c)
Dir(p) == Node(p, TRUE, "")

IsPrefix(a, b) == Len(a) <= Len(b) /\ SubSeq(b, 1, Len(a)) = a
Under(a, b) == IsPrefix(a, b) /\ Len(b) > Len(a)
Join(a, b) == a \o b

\* os.path.exists, os.path.isdir, os.listdir
exists(fs, p) == p = <<>> \/ \E n \in fs : IsPrefix(p, n.p)
isdir(fs, p) == p = <<>> \/ \E n \in fs : (n.p = p /\ n.d) \/ Under(p, n.p)
listdir(fs, p) == { n.p[Len(p) + 1] : n \in { m \in fs : Under(p, m.p) } }

\* every directory on the way to a node is a node too
Norm(fs) ==
    fs \cup UNION { { Dir(SubSeq(n.p, 1, k)) : k \in 1..(Len(n.p) - 1) } : n \in fs }

\* the nodes of fs below directory p, re-rooted at q
Moved(fs, p, q) ==
    { Node(Join(q, SubSeq(n.p, Len(p) + 1, Len(n.p))), n.d, n.c) :
        n \in { m \in fs : Under(p, m.p) } }

\* writing nodes into fs: a written file replaces the file of the same path
Written(fs, new) ==
    { n \in fs : ~ \E m \in new : m.p = n.p } \cup new

\* shutil.rmtree(p)
Removed(fs, p) == { n \in fs : ~ IsPrefix(p, n.p) }

NoArchive == [exists |-> FALSE, ok |-> FALSE, members |-> {}]
Archive(ms) == [exists |-> TRUE, ok |-> TRUE, members |-> ms]
None == <<>>

-----------------------------------------------------------------------------
(* Program constants *)

FILES_TO_BACKUP == << <<"var", "lib", "marzban">>, <<"opt", "marzban">> >>
EXCLUDED_DATABASES == {"information_schema", "mysql", "performance_schema", "sys"}
MARZBAN_SERVICE_PATH == <<"opt", "marzban">>
Services == {"mysql", "marzban"}

-----------------------------------------------------------------------------
(* The host: what the process can be started on *)

\* a string of a container line is a sequence of words; a word contains the
\* substrings listed here (after lower())
Lower(w) == IF w = "Marzban" THEN "marzban" ELSE w
Contains(w, sub) ==
    \/ w = sub
    \/ (w = "mysqld" /\ sub = "mysql")
    \/ (w = "glib" /\ sub = "lib")
LineWords(c) == c.name \o c.image
LineHas(c, sub) == \E i \in 1..Len(LineWords(c)) : Contains(LineWords(c)[i], sub)
LineLowerHas(c, sub) ==
    \E i \in 1..Len(LineWords(c)) : Contains(Lower(LineWords(c)[i]), sub)

Container(name, image, svc) == [name |-> name, image |-> image, svc |-> svc]
AppContainer == Container(<<"marzban", "marzban", "1">>, <<"gozargah", "marzban">>, "marzban")
HostChoices ==
    { << Container(<<"marzban", "mysql", "1">>, <<"mysql", "8">>, "mysql"), AppContainer >>,
      << AppContainer >>,
      << Container(<<"db", "1">>, <<"mariadb", "10">>, "mysql"), AppContainer >>,
      << Container(<<"db", "1">>, <<"mariadb", "10">>, "mysql"),
         Container(<<"Marzban", "mysql", "1">>, <<"mysql", "8">>, "mysql"),
         AppContainer >> }

LiveChoices ==
    { Norm({ File(<<"var", "lib", "marzban", "xray_config.json">>, "live"),
             File(<<"var", "lib", "marzban", "mysql", "ibdata1">>, "live"),
             File(<<"var", "lib", "marzban", "logs", "access.log">>, "live"),
             File(<<"opt", "marzban", ".env">>, "live"),
             File(<<"opt", "marzban", "docker-compose.yml">>, "live") }),
      Norm({ File(<<"var", "lib", "marzban", "db.sqlite3">>, "live"),
             File(<<"opt", "marzban", ".env">>, "live") }),
      Norm({ File(<<"var", "lib", "marzban", "db.sqlite3">>, "live") }),
      Norm({ File(<<"opt", "marzban", "mysql", "my.cnf">>, "live"),
             File(<<"opt", "marzban", "lib", "marzban", "logs", "app.log">>, "live") }),
      {} }

\* the members an archive given to do-restore is made of
ZipUniverse ==
    { Dir(<<"filesystem">>),
      File(<<"filesystem", "opt", "marzban", ".env">>, "bak"),
      File(<<"filesystem", "var", "lib", "marzban", "db.sqlite3">>, "bak"),
      File(<<"database", "marzban.sql">>, "bak"),
      File(<<"database", "other.sql">>, "bak"),
      File(<<"db_dumps", "marzban.sql">>, "bak") }
ZipChoices ==
    { [exists |-> TRUE, ok |-> FALSE, members |-> {}] }
    \cup { Archive(ms) : ms \in SUBSET ZipUniverse }

NoConfig == [present |-> FALSE, telegram |-> FALSE, database |-> FALSE]
ConfigChoices ==
    { NoConfig }
    \cup { [present |-> TRUE, telegram |-> t, database |-> d] : t, d \in BOOLEAN }

-----------------------------------------------------------------------------
(* Helper functions of the script *)

\* docker ps --format '{{.Names}} {{.Image}}': the running containers
docker_ps(run) ==
    SelectSeq(hostContainers, LAMBDA c : c.svc \in run)

\* ... | grep -E 'mysql|mariadb'
grep_db(lines) ==
    SelectSeq(lines, LAMBDA c : LineHas(c, "mysql") \/ LineHas(c, "mariadb"))

\* faulty variant: without a line naming marzban the first line is returned
find_database_container_FirstMatch(run) ==
    LET containers == grep_db(docker_ps(run))
        hits == { i \in 1..Len(containers) : LineLowerHas(containers[i], "marzban") }
    IN  IF containers = <<>>
        THEN None
        ELSE IF hits = {}
        THEN containers[1].name
        ELSE containers[CHOOSE i \in hits : \A j \in hits : i <= j].name

\* find_database_container(): the name on the first line that has 'marzban'
find_database_container(run) ==
    LET containers == grep_db(docker_ps(run))
        hits == { i \in 1..Len(containers) : LineLowerHas(containers[i], "marzban") }
    IN  IF containers = <<>> \/ hits = {}
        THEN None
        ELSE containers[CHOOSE i \in hits : \A j \in hits : i <= j].name

\* the exit statuses of docker compose; NotRun when /opt/marzban is no
\* directory and the command is never started
ExitStatuses == {0, 1, 125}
NotRun == -1
run_marzban_command_statuses ==
    IF isdir(live, MARZBAN_SERVICE_PATH) THEN ExitStatuses ELSE {NotRun}

\* faulty variant: the exit status is not checked (check=False)
run_marzban_command_return_Unchecked(status) == status # NotRun

\* what run_marzban_command returns: False without the directory and on
\* CalledProcessError, True otherwise
run_marzban_command_return(status) == status = 0

\* what docker compose <action> leaves running
compose(action, ok, run) ==
    IF ~ok THEN run
    ELSE IF action = "down" THEN {}
    ELSE IF action = "up -d" THEN Services
    ELSE run

Call(action, ok, site, status) ==
    [action |-> action, ok |-> ok, site |-> site, status |-> status]
Step(step, ok) == [step |-> step, ok |-> ok]

\* run_marzban_command(action) called at `site`, returning ok
run_marzban_command(action, ok, site) ==
    \E status \in run_marzban_command_statuses :
        /\ ok = run_marzban_command_return(status)
        /\ running' = compose(action, ok, running)
        /\ calls' = Append(calls, Call(action, ok, site, status))

-----------------------------------------------------------------------------
(* run_restore_process(zip_path, config) *)

\* the state of the Telegram bot and of the scheduler
botVars == <<bot_tasks, conversational_states, backup_interval, crontab,
             forwarded, rejected>>

envVars == <<command, argPath, config, live0, hostContainers, zip, botVars,
             db_type, crontab0, last_backup_time, event>>
backupVars == <<backup_temp_dir, backupTempExists, zipfile_, uploaded, todo, dumped>>

fs_restore_path == <<"filesystem">>
db_restore_path == <<"database">>
mysql_data_dir == <<"var", "lib", "marzban", "mysql">>
\* os.path.join(db_restore_path, 'marzban.sql')
sql_file_path == Join(db_restore_path, <<"marzban.sql">>)

\* f.startswith(prefix + '/') for a name of zf.namelist(); a directory entry's
\* name ends in '/'
StartsWithDir(m, prefix) ==
    /\ Len(m.p) >= 1
    /\ m.p[1] = prefix
    /\ (Len(m.p) > 1 \/ m.d)

\* faulty variant: the check accepts an archive that has either directory
ValidStructure_EitherDir(members) ==
    \E m \in members : StartsWithDir(m, "filesystem") \/ StartsWithDir(m, "database")

\* faulty variant: the check demands both directories
ValidStructure_BothDirs(members) ==
    /\ \E m \in members : StartsWithDir(m, "filesystem")
    /\ \E m \in members : StartsWithDir(m, "database")

\* any(f.startswith('filesystem/') for f in zf.namelist())
ValidStructure(members) ==
    \E m \in members : StartsWithDir(m, "filesystem")

\* raise Exception(...) inside the try block, at `step`
Raise(step, err) ==
    /\ pc' = "r_except"
    /\ failedAt' = step
    /\ error' = err
    /\ trace' = Append(trace, Step(step, FALSE))

\* the commands that carry the credentials of config['database']
db_user == "<user>"
db_pass == "<password>"
list_dbs_cmd ==
    <<"docker exec -e MYSQL_PWD=", db_pass>> \o container_name
        \o <<"mysql -u", db_user, "-e 'SHOW DATABASES;'">>
dump_cmd(db_name) ==
    <<"docker exec -e MYSQL_PWD=", db_pass>> \o container_name
        \o <<"mysqldump -u", db_user, "--databases", db_name, ">", db_name \o ".sql">>
restore_cmd ==
    <<"cat", "marzban.sql", "| docker exec -i -e MYSQL_PWD=", db_pass>>
        \o container_name \o <<"mysql -u", db_user, "marzban">>

\* str(e) of subprocess.CalledProcessError: it quotes the command
CalledProcessError(cmd) ==
    <<"Command">> \o cmd \o <<"returned non-zero exit status">>

\* str(e) of the exception the except block has caught
ExceptionText ==
    CASE error = "ListFailed" -> CalledProcessError(list_dbs_cmd)
      [] error = "DumpFailed" -> CalledProcessError(dump_cmd(Head(todo)))
      [] error = "ImportFailed" -> CalledProcessError(restore_cmd)
      [] OTHER -> <<error>>

\* the step completed; go on at `next`
Proceed(step, next) ==
    /\ pc' = next
    /\ trace' = Append(trace, Step(step, TRUE))
    /\ UNCHANGED <<failedAt, error>>

\* with tempfile.TemporaryDirectory(...) as temp_dir:
Restore_Enter ==
    /\ pc = "r_enter"
    /\ tempExists' = TRUE
    /\ temp_dir' = {}
    /\ pc' = "r_open"
    /\ UNCHANGED <<envVars, logged, backupVars, live, running, container_name, calls,
                   trace, failedAt, error, result, exitCode, imported>>

\* open the archive, verify its structure, extract it
Restore_Open ==
    /\ pc = "r_open"
    /\ IF ~zip.ok
       THEN Raise("extract", "BadZipFile") /\ UNCHANGED temp_dir
       ELSE IF ~ValidStructure(zip.members)
       THEN Raise("extract", "InvalidStructure") /\ UNCHANGED temp_dir
       ELSE \E ok \in BOOLEAN :
              IF ok
              THEN /\ temp_dir' = Norm(zip.members)
                   /\ Proceed("extract", "r_down")
              ELSE /\ \E part \in SUBSET zip.members :
                        /\ part # zip.members
                        /\ temp_dir' = Norm(part)
                   /\ Raise("extract", "ExtractError")
    /\ UNCHANGED <<envVars, logged, backupVars, live, running, container_name, calls,
                   tempExists, result, exitCode, imported>>

\* faulty variant: the result of "down" is not looked at
Restore_Down_Unchecked ==
    /\ pc = "r_down"
    /\ \E ok \in BOOLEAN :
         /\ run_marzban_command("down", ok, "stop")
         /\ Proceed("stop", "r_copy")
    /\ UNCHANGED <<envVars, logged, backupVars, live, temp_dir, tempExists,
                   container_name, result, exitCode, imported>>

\* if not run_marzban_command("down"): raise
Restore_Down ==
    /\ pc = "r_down"
    /\ \E ok \in BOOLEAN :
         /\ run_marzban_command("down", ok, "stop")
         /\ IF ok
            THEN Proceed("stop", "r_copy")
            ELSE Raise("stop", "CouldNotStop")
    /\ UNCHANGED <<envVars, logged, backupVars, live, temp_dir, tempExists,
                   container_name, result, exitCode, imported>>

\* shutil.copytree(fs_restore_path, "/", dirs_exist_ok=True)
Restore_Copy ==
    /\ pc = "r_copy"
    /\ IF isdir(temp_dir, fs_restore_path)
       THEN LET staged == Moved(temp_dir, fs_restore_path, <<>>)
            IN  \E ok \in BOOLEAN :
                  IF ok
                  THEN /\ live' = Norm(Written(live, staged))
                       /\ Proceed("copytree", "r_db")
                  ELSE /\ \E part \in SUBSET staged :
                            /\ part # staged
                            /\ live' = Norm(Written(live, part))
                       /\ Raise("copytree", "CopyError")
       ELSE /\ pc' = "r_db"
            /\ UNCHANGED <<live, trace, failedAt, error>>
    /\ UNCHANGED <<envVars, logged, backupVars, running, temp_dir, tempExists,
                   container_name, calls, result, exitCode, imported>>

\* MySQL data in the backup? then credentials are needed and the MySQL data
\* directory is cleared
Restore_Db ==
    /\ pc = "r_db"
    /\ IF isdir(temp_dir, db_restore_path) /\ listdir(temp_dir, db_restore_path) # {}
       THEN IF ~config.database
            THEN Raise("clear_mysql", "NoCredentials") /\ UNCHANGED live
            ELSE /\ live' = Norm(Removed(live, mysql_data_dir) \cup {Dir(mysql_data_dir)})
                 /\ Proceed("clear_mysql", "r_up")
       ELSE /\ pc' = "r_final_down"
            /\ UNCHANGED <<live, trace, failedAt, error>>
    /\ UNCHANGED <<envVars, logged, backupVars, running, temp_dir, tempExists,
                   container_name, calls, result, exitCode, imported>>

\* if not run_marzban_command("up -d"): raise
Restore_Up ==
    /\ pc = "r_up"
    /\ \E ok \in BOOLEAN :
         /\ run_marzban_command("up -d", ok, "init")
         /\ IF ok
            THEN Proceed("start_db", "r_sleep")
            ELSE Raise("start_db", "CouldNotStart")
    /\ UNCHANGED <<envVars, logged, backupVars, live, temp_dir, tempExists,
                   container_name, result, exitCode, imported>>

\* sleep(30)
Restore_Sleep ==
    /\ pc = "r_sleep"
    /\ Proceed("wait", "r_find")
    /\ UNCHANGED <<envVars, logged, backupVars, live, running, temp_dir, tempExists,
                   container_name, calls, result, exitCode, imported>>

\* faulty variant: no container is only warned about and the import is skipped
Restore_Find_Skip ==
    /\ pc = "r_find"
    /\ container_name' = find_database_container(running)
    /\ IF container_name' = None
       THEN /\ pc' = "r_final_down"
            /\ trace' = Append(trace, Step("find", FALSE))
            /\ UNCHANGED <<failedAt, error>>
       ELSE Proceed("find", "r_test")
    /\ UNCHANGED <<envVars, logged, backupVars, live, running, temp_dir, tempExists,
                   calls, result, exitCode, imported>>

\* container_name = find_database_container(); if not container_name: raise
Restore_Find ==
    /\ pc = "r_find"
    /\ container_name' = find_database_container(running)
    /\ IF container_name' = None
       THEN Raise("find", "NoContainer")
       ELSE Proceed("find", "r_test")
    /\ UNCHANGED <<envVars, logged, backupVars, live, running, temp_dir, tempExists,
                   calls, result, exitCode, imported>>

\* faulty variant: the result of the connection test is not looked at
Restore_Test_Unchecked ==
    /\ pc = "r_test"
    /\ \E ok \in BOOLEAN :
         /\ pc' = "r_import"
         /\ trace' = Append(trace, Step("test", ok))
         /\ UNCHANGED <<failedAt, error>>
    /\ UNCHANGED <<envVars, logged, backupVars, live, running, temp_dir, tempExists,
                   container_name, calls, result, exitCode, imported>>

\* if not test_database_connection(...): raise      (SELECT 1)
Restore_Test ==
    /\ pc = "r_test"
    /\ \E ok \in BOOLEAN :
         IF ok
         THEN Proceed("test", "r_import")
         ELSE Raise("test", "CannotConnect")
    /\ UNCHANGED <<envVars, logged, backupVars, live, running, temp_dir, tempExists,
                   container_name, calls, result, exitCode, imported>>

\* faulty variant: the exit status of the import command is not looked at
Restore_Import_Unchecked ==
    /\ pc = "r_import"
    /\ IF exists(temp_dir, sql_file_path)
       THEN \E ok \in BOOLEAN :
              /\ imported' = IF ok THEN imported \cup {sql_file_path[Len(sql_file_path)]}
                                   ELSE imported
              /\ pc' = "r_final_down"
              /\ trace' = Append(trace, Step("import", ok))
              /\ UNCHANGED <<failedAt, error>>
       ELSE /\ pc' = "r_final_down"
            /\ UNCHANGED <<trace, failedAt, error, imported>>
    /\ UNCHANGED <<envVars, logged, backupVars, live, running, temp_dir, tempExists,
                   container_name, calls, result, exitCode>>

\* import database/marzban.sql if the backup has it
Restore_Import ==
    /\ pc = "r_import"
    /\ IF exists(temp_dir, sql_file_path)
       THEN \E ok \in BOOLEAN :
              IF ok
              THEN /\ imported' = imported \cup {sql_file_path[Len(sql_file_path)]}
                   /\ Proceed("import", "r_final_down")
              ELSE /\ UNCHANGED imported
                   /\ Raise("import", "ImportFailed")
       ELSE /\ pc' = "r_final_down"
            /\ UNCHANGED <<trace, failedAt, error, imported>>
    /\ UNCHANGED <<envVars, logged, backupVars, live, running, temp_dir, tempExists,
                   container_name, calls, result, exitCode>>

\* final restart: run_marzban_command("down"), its result unused
Restore_FinalDown ==
    /\ pc = "r_final_down"
    /\ \E ok \in BOOLEAN :
         /\ run_marzban_command("down", ok, "final")
         /\ trace' = Append(trace, Step("final_down", ok))
    /\ pc' = "r_final_up"
    /\ UNCHANGED <<envVars, logged, backupVars, live, temp_dir, tempExists,
                   container_name, failedAt, error, result, exitCode, imported>>

\* final restart: run_marzban_command("up -d"), a failure is only logged
Restore_FinalUp ==
    /\ pc = "r_final_up"
    /\ \E ok \in BOOLEAN :
         /\ run_marzban_command("up -d", ok, "final")
         /\ trace' = Append(trace, Step("final_up", ok))
    /\ pc' = "r_done"
    /\ UNCHANGED <<envVars, logged, backupVars, live, temp_dir, tempExists,
                   container_name, failedAt, error, result, exitCode, imported>>

\* "Restore process completed successfully!"; return True
Restore_Done ==
    /\ pc = "r_done"
    /\ result' = "True"
    /\ trace' = Append(trace, Step("done", TRUE))
    /\ pc' = "r_exit"
    /\ UNCHANGED <<envVars, logged, backupVars, live, running, temp_dir, tempExists,
                   container_name, calls, failedAt, error, exitCode, imported>>

\* faulty variant: the handler returns False without the safety restart
Restore_Except_NoRestart ==
    /\ pc = "r_except"
    /\ logged' = logged \cup {<<"A critical error occurred during restore:">> \o ExceptionText}
    /\ result' = "False"
    /\ pc' = "r_exit"
    /\ UNCHANGED <<envVars, backupVars, live, running, calls, temp_dir,
                   tempExists, container_name, trace, failedAt, error, exitCode, imported>>

\* except Exception: run_marzban_command("up -d") as a safety measure; return False
Restore_Except ==
    /\ pc = "r_except"
    /\ logged' = logged \cup {<<"A critical error occurred during restore:">> \o ExceptionText}
    /\ \E ok \in BOOLEAN : run_marzban_command("up -d", ok, "safety")
    /\ result' = "False"
    /\ pc' = "r_exit"
    /\ UNCHANGED <<envVars, backupVars, live, temp_dir, tempExists,
                   container_name, trace, failedAt, error, exitCode, imported>>

\* faulty variant: the temporary directory is left behind on return
Restore_Exit_NoCleanup ==
    /\ pc = "r_exit"
    /\ pc' = "m_restored"
    /\ UNCHANGED <<envVars, logged, backupVars, live, running, container_name, calls,
                   temp_dir, tempExists, trace, failedAt, error, result,
                   exitCode, imported>>

\* leaving the with block removes the temporary directory
Restore_Exit ==
    /\ pc = "r_exit"
    /\ temp_dir' = {}
    /\ tempExists' = FALSE
    /\ pc' = "m_restored"
    /\ UNCHANGED <<envVars, logged, backupVars, live, running, container_name, calls,
                   trace, failedAt, error, result, exitCode, imported>>

-----------------------------------------------------------------------------
(* run_full_backup(config, is_cron) *)

restoreVars == <<temp_dir, tempExists, result, imported>>

db_zip_path == <<"database">>
fs_zip_path == <<"filesystem">>

\* the user databases the server can hold, and how many of them at most
UserDbNames == <<"marzban", "other", "shop">>
MaxUserDbs == 2

\* the lines SHOW DATABASES prints: a header, the system schemas, the user
\* databases
ShowDatabasesChoices ==
    { <<"Database", "information_schema">> \o SubSeq(UserDbNames, 1, k)
        \o <<"mysql", "performance_schema", "sys">> : k \in 0..MaxUserDbs }

\* [db for db in stdout.split('\n')[1:] if db not in EXCLUDED_DATABASES]
databases(lines) ==
    SelectSeq(Tail(lines), LAMBDA db : db \notin EXCLUDED_DATABASES)

SqlName(db_name) == db_name \o ".sql"

\* faulty variant: only the MySQL data directory is skipped
ignore_specific_dirs_MysqlOnly(directory) ==
    IF /\ directory # <<>>
       /\ directory[Len(directory)] = "marzban"
       /\ \E i \in 1..Len(directory) : Contains(directory[i], "lib")
    THEN {"mysql"}
    ELSE {}

\* ignore_specific_dirs(directory, contents): the names to skip in `directory`
ignore_specific_dirs(directory) ==
    IF /\ directory # <<>>
       /\ directory[Len(directory)] = "marzban"
       /\ \E i \in 1..Len(directory) : Contains(directory[i], "lib")
    THEN {"mysql", "logs"}
    ELSE {}

\* a node of the tree at src that copytree(..., ignore=ignore) never reaches
Skipped(src, p) ==
    \E k \in Len(src)..(Len(p) - 1) :
        p[k + 1] \in ignore_specific_dirs(SubSeq(p, 1, k))

\* faulty variant: the tree is staged under its last component only
dest_path_basename(file_path) ==
    Join(fs_zip_path, SubSeq(file_path, Len(file_path), Len(file_path)))

\* os.path.join(fs_zip_path, file_path.lstrip('/'))
dest_path(file_path) == Join(fs_zip_path, file_path)

\* faulty variant: the destination directory is made before the source is
\* looked for
Snapshot_MakeDirs(fs, file_path) ==
    IF ~exists(fs, file_path) THEN {Dir(dest_path(file_path))}
    ELSE IF isdir(fs, file_path)
    THEN {Dir(dest_path(file_path))}
         \cup { Node(dest_path(n.p), n.d, n.c) :
                  n \in { m \in fs : Under(file_path, m.p) /\ ~Skipped(file_path, m.p) } }
    ELSE { Node(dest_path(n.p), n.d, n.c) : n \in { m \in fs : m.p = file_path } }

\* the nodes staged for one entry of FILES_TO_BACKUP
Snapshot(fs, file_path) ==
    IF ~exists(fs, file_path) THEN {}
    ELSE IF isdir(fs, file_path)
    THEN {Dir(dest_path(file_path))}
         \cup { Node(dest_path(n.p), n.d, n.c) :
                  n \in { m \in fs : Under(file_path, m.p) /\ ~Skipped(file_path, m.p) } }
    ELSE { Node(dest_path(n.p), n.d, n.c) : n \in { m \in fs : m.p = file_path } }

\* the first k entries of FILES_TO_BACKUP staged
SnapshotFirst(fs, k) ==
    UNION { Snapshot(fs, FILES_TO_BACKUP[i]) : i \in 1..k }

\* raise inside the try block of run_full_backup
BRaise(step, err) ==
    /\ pc' = "b_except"
    /\ failedAt' = step
    /\ error' = err
    /\ trace' = Append(trace, Step(step, FALSE))

BProceed(step, next) ==
    /\ pc' = next
    /\ trace' = Append(trace, Step(step, TRUE))
    /\ UNCHANGED <<failedAt, error>>

\* backup_temp_dir = tempfile.mkdtemp(...)
Backup_Enter ==
    /\ pc = "b_enter"
    /\ backupTempExists' = TRUE
    /\ backup_temp_dir' = {}
    /\ pc' = "b_find"
    /\ UNCHANGED <<envVars, logged, restoreVars, live, running, container_name, calls,
                   trace, failedAt, error, exitCode, zipfile_, uploaded, todo,
                   dumped>>

\* faulty variant: the database branch is entered on the credentials alone
Backup_Find_IgnoreContainer ==
    /\ pc = "b_find"
    /\ container_name' = find_database_container(running)
    /\ IF config.database
       THEN BProceed("find", "b_list")
       ELSE BProceed("skip_db", "b_fs")
    /\ UNCHANGED <<envVars, logged, restoreVars, live, running, calls, exitCode,
                   backupVars>>

\* container_name = find_database_container()
\* if container_name and config.get('database'): ... else: skip
Backup_Find ==
    /\ pc = "b_find"
    /\ container_name' = find_database_container(running)
    /\ IF container_name' # None /\ config.database
       THEN BProceed("find", "b_list")
       ELSE BProceed("skip_db", "b_fs")
    /\ UNCHANGED <<envVars, logged, restoreVars, live, running, calls, exitCode,
                   backupVars>>

\* SHOW DATABASES (check=True); os.makedirs(db_zip_path)
Backup_List ==
    /\ pc = "b_list"
    /\ \E ok \in BOOLEAN :
         IF ok
         THEN /\ \E lines \in ShowDatabasesChoices : todo' = databases(lines)
              /\ backup_temp_dir' = Norm(backup_temp_dir \cup {Dir(db_zip_path)})
              /\ BProceed("list", "b_dump")
         ELSE /\ UNCHANGED <<todo, backup_temp_dir>>
              /\ BRaise("list", "ListFailed")
    /\ UNCHANGED <<envVars, logged, restoreVars, live, running, container_name, calls,
                   exitCode, backupTempExists, zipfile_, uploaded, dumped>>

\* for db_name in databases: mysqldump ... > sql_path (check=True)
Backup_Dump ==
    /\ pc = "b_dump"
    /\ IF todo = <<>>
       THEN /\ pc' = "b_fs"
            /\ UNCHANGED <<todo, dumped, backup_temp_dir, trace, failedAt, error>>
       ELSE LET db_name == Head(todo)
                sql_path == Join(db_zip_path, <<SqlName(db_name)>>)
            IN  \E ok \in BOOLEAN :
                  IF ok
                  THEN /\ backup_temp_dir' = Written(backup_temp_dir, {File(sql_path, "dump")})
                       /\ dumped' = dumped \cup {db_name}
                       /\ todo' = Tail(todo)
                       /\ BProceed("dump", "b_dump")
                  ELSE /\ backup_temp_dir' = Written(backup_temp_dir, {File(sql_path, "partial")})
                       /\ UNCHANGED <<todo, dumped>>
                       /\ BRaise("dump", "DumpFailed")
    /\ UNCHANGED <<envVars, logged, restoreVars, live, running, container_name, calls,
                   exitCode, backupTempExists, zipfile_, uploaded>>

\* faulty variant: a failed copy is passed over and the archive is made anyway
Backup_Fs_Unchecked ==
    /\ pc = "b_fs"
    /\ \E ok \in BOOLEAN :
         IF ok
         THEN /\ backup_temp_dir' =
                   Norm(backup_temp_dir \cup {Dir(fs_zip_path)}
                        \cup SnapshotFirst(live, Len(FILES_TO_BACKUP)))
              /\ BProceed("snapshot", "b_archive")
         ELSE /\ \E k \in 1..Len(FILES_TO_BACKUP) :
                   /\ exists(live, FILES_TO_BACKUP[k])
                   /\ backup_temp_dir' =
                        Norm(backup_temp_dir \cup {Dir(fs_zip_path)}
                             \cup SnapshotFirst(live, k - 1)
                             \cup {Dir(dest_path(FILES_TO_BACKUP[k]))})
              /\ pc' = "b_archive"
              /\ trace' = Append(trace, Step("snapshot", FALSE))
              /\ UNCHANGED <<failedAt, error>>
    /\ UNCHANGED <<envVars, logged, restoreVars, live, running, container_name, calls,
                   exitCode, backupTempExists, zipfile_, uploaded, todo, dumped>>

\* os.makedirs(fs_zip_path); for file_path in FILES_TO_BACKUP: copy it.
\* A copy that fails at entry k leaves the entries before it staged and of
\* entry k its top directory.
Backup_Fs ==
    /\ pc = "b_fs"
    /\ \E ok \in BOOLEAN :
         IF ok
         THEN /\ backup_temp_dir' =
                   Norm(backup_temp_dir \cup {Dir(fs_zip_path)}
                        \cup SnapshotFirst(live, Len(FILES_TO_BACKUP)))
              /\ BProceed("snapshot", "b_archive")
         ELSE /\ \E k \in 1..Len(FILES_TO_BACKUP) :
                   /\ exists(live, FILES_TO_BACKUP[k])
                   /\ backup_temp_dir' =
                        Norm(backup_temp_dir \cup {Dir(fs_zip_path)}
                             \cup SnapshotFirst(live, k - 1)
                             \cup {Dir(dest_path(FILES_TO_BACKUP[k]))})
              /\ BRaise("snapshot", "CopyError")
    /\ UNCHANGED <<envVars, logged, restoreVars, live, running, container_name, calls,
                   exitCode, backupTempExists, zipfile_, uploaded, todo, dumped>>

\* shutil.make_archive(..., 'zip', backup_temp_dir): every file and directory
\* of the staging directory becomes a member, named relative to it
Backup_Archive ==
    /\ pc = "b_archive"
    /\ \E ok \in BOOLEAN :
         IF ok
         THEN /\ zipfile_' = Archive(backup_temp_dir)
              /\ BProceed("archive", "b_upload")
         ELSE /\ zipfile_' \in {NoArchive, [exists |-> TRUE, ok |-> FALSE, members |-> {}]}
              /\ BRaise("archive", "ArchiveError")
    /\ UNCHANGED <<envVars, logged, restoreVars, live, running, container_name, calls,
                   exitCode, backup_temp_dir, backupTempExists, uploaded, todo,
                   dumped>>

\* tg_config['bot_token'], requests.post(...): status 200 or raise
Backup_Upload ==
    /\ pc = "b_upload"
    /\ IF ~config.telegram
       THEN BRaise("upload", "KeyError") /\ UNCHANGED uploaded
       ELSE \E r \in {"200", "rejected", "exception"} :
              IF r = "200"
              THEN /\ uploaded' = zipfile_
                   /\ BProceed("upload", "b_finally")
              ELSE /\ UNCHANGED uploaded
                   /\ BRaise("upload", "UploadFailed")
    /\ UNCHANGED <<envVars, logged, restoreVars, live, running, container_name, calls,
                   exitCode, backup_temp_dir, backupTempExists, zipfile_, todo,
                   dumped>>

\* except Exception as e: log; raise
Backup_Except ==
    /\ pc = "b_except"
    /\ logged' = logged \cup {<<"A critical error occurred during backup:">> \o ExceptionText}
    /\ pc' = "b_finally"
    /\ UNCHANGED <<envVars, restoreVars, backupVars, live, running,
                   container_name, calls, trace, failedAt, error, exitCode>>

\* faulty variant: only the staging directory is removed
Backup_Finally_KeepZip ==
    /\ pc = "b_finally"
    /\ backup_temp_dir' = {}
    /\ backupTempExists' = FALSE
    /\ pc' = "m_backed_up"
    /\ UNCHANGED <<envVars, logged, restoreVars, live, running, container_name, calls,
                   trace, failedAt, error, exitCode, zipfile_, uploaded, todo,
                   dumped>>

\* finally: shutil.rmtree(backup_temp_dir); os.remove(zip_filename) if it exists
Backup_Finally ==
    /\ pc = "b_finally"
    /\ backup_temp_dir' = {}
    /\ backupTempExists' = FALSE
    /\ zipfile_' = NoArchive
    /\ pc' = "m_backed_up"
    /\ UNCHANGED <<envVars, logged, restoreVars, live, running, container_name, calls,
                   trace, failedAt, error, exitCode, uploaded, todo, dumped>>

-----------------------------------------------------------------------------
(* main(): the non-interactive commands *)

\* a crontab line: its schedule, and whether CRON_JOB_IDENTIFIER is in it; a
\* blank line has the schedule ""
CronLine(interval, tagged) == [interval |-> interval, tagged |-> tagged]
OtherLine == CronLine("daily", FALSE)
WeeklyLine == CronLine("weekly", FALSE)
BlankLine == CronLine("", FALSE)
\* f"{cron_command} {CRON_JOB_IDENTIFIER}"
cron_command(interval) == CronLine(interval, TRUE)

\* faulty variant: the line is added without removing the one of an earlier
\* setup
new_crontab_AppendOnly(current, interval) ==
    Append(SelectSeq(current, LAMBDA line : line # BlankLine), cron_command(interval))

\* the lines without the identifier that are not blank, then the new line
new_crontab(current, interval) ==
    Append(SelectSeq(current, LAMBDA line : ~line.tagged /\ line # BlankLine),
           cron_command(interval))

\* the crontabs a host can have when the setup starts
CrontabChoices ==
    { <<>>,
      <<OtherLine, BlankLine, WeeklyLine>>,
      <<cron_command("30"), OtherLine>>,
      <<OtherLine, cron_command("30"), WeeklyLine, cron_command("60")>> }

Commands ==
    {"run-backup", "do-backup", "do-restore", "do-auto-backup-setup", "get-db-type"}

\* get-db-type: SQLite if the file is there, MySQL if the grep pipeline
\* (case-sensitive for 'marzban') finds a line
get_db_type ==
    IF \E i \in 1..Len(grep_db(docker_ps(running))) :
           LineHas(grep_db(docker_ps(running))[i], "marzban")
    THEN "MySQL"
    ELSE IF exists(live, <<"var", "lib", "marzban", "db.sqlite3">>)
    THEN "SQLite"
    ELSE "Unknown"

\* the variables of envVars that no command of main changes
argVars == <<command, argPath, config, live0, hostContainers, zip, bot_tasks,
             conversational_states, backup_interval, forwarded, rejected,
             crontab0, last_backup_time, event>>

\* faulty variant: the configuration is loaded before any command is looked at
Main_Start_ConfigFirst ==
    /\ pc = "m_start"
    /\ IF ~config.present
       THEN pc' = "halt" /\ exitCode' = 1 /\ UNCHANGED db_type
       ELSE IF command = "get-db-type"
       THEN pc' = "halt" /\ exitCode' = 0 /\ db_type' = get_db_type
       ELSE IF command \in {"run-backup", "do-backup"}
       THEN pc' = "b_enter" /\ UNCHANGED <<exitCode, db_type>>
       ELSE IF command = "do-auto-backup-setup"
       THEN pc' = "c_check" /\ UNCHANGED <<exitCode, db_type>>
       ELSE IF argPath # "present"
       THEN pc' = "halt" /\ exitCode' = 1 /\ UNCHANGED db_type
       ELSE pc' = "r_enter" /\ UNCHANGED <<exitCode, db_type>>
    /\ UNCHANGED <<argVars, crontab, logged, restoreVars, backupVars, live, running,
                   container_name, calls, trace, failedAt, error>>

\* get-db-type first; then load_config_file(); dispatch on sys.argv[1]
Main_Start ==
    /\ pc = "m_start"
    /\ IF command = "get-db-type"
       THEN pc' = "halt" /\ exitCode' = 0 /\ db_type' = get_db_type
       ELSE IF ~config.present
       THEN pc' = "halt" /\ exitCode' = 1 /\ UNCHANGED db_type
       ELSE IF command \in {"run-backup", "do-backup"}
       THEN pc' = "b_enter" /\ UNCHANGED <<exitCode, db_type>>
       ELSE IF command = "do-auto-backup-setup"
       THEN pc' = "c_check" /\ UNCHANGED <<exitCode, db_type>>
       ELSE IF argPath # "present"
       THEN pc' = "halt" /\ exitCode' = 1 /\ UNCHANGED db_type
       ELSE pc' = "r_enter" /\ UNCHANGED <<exitCode, db_type>>
    /\ UNCHANGED <<argVars, crontab, logged, restoreVars, backupVars, live, running,
                   container_name, calls, trace, failedAt, error>>

\* if run_restore_process(zip_path, config): sys.exit(0) else: sys.exit(1)
Main_Restored ==
    /\ pc = "m_restored"
    /\ exitCode' = IF result = "True" THEN 0 ELSE 1
    /\ pc' = "halt"
    /\ UNCHANGED <<envVars, logged, restoreVars, backupVars, live, running,
                   container_name, calls, trace, failedAt, error>>

\* try: run_full_backup(...); sys.exit(0)  except Exception: sys.exit(1)
Main_BackedUp ==
    /\ pc = "m_backed_up"
    /\ command \in {"run-backup", "do-backup"}
    /\ exitCode' = IF error = "none" THEN 0 ELSE 1
    /\ pc' = "halt"
    /\ UNCHANGED <<envVars, logged, restoreVars, backupVars, live, running,
                   container_name, calls, trace, failedAt, error>>

-----------------------------------------------------------------------------
(* setup_cronjob_flow(interactive=False) *)

\* no bot token, or no backup_interval: return False; else the test backup
Setup_Check ==
    /\ pc = "c_check"
    /\ IF ~config.telegram \/ backup_interval = "none"
       THEN result' = "False" /\ pc' = "m_setup"
       ELSE UNCHANGED result /\ pc' = "b_enter"
    /\ UNCHANGED <<envVars, logged, temp_dir, tempExists, imported, backupVars,
                   live, running, container_name, calls, trace, failedAt, error,
                   exitCode>>

\* faulty variant: a failed test backup is only logged
Setup_Tested_Unchecked ==
    /\ pc = "m_backed_up"
    /\ command = "do-auto-backup-setup"
    /\ UNCHANGED result /\ pc' = "c_cron"
    /\ UNCHANGED <<envVars, logged, temp_dir, tempExists, imported, backupVars,
                   live, running, container_name, calls, trace, failedAt, error,
                   exitCode>>

\* try: run_full_backup(config)  except Exception: return False
Setup_Tested ==
    /\ pc = "m_backed_up"
    /\ command = "do-auto-backup-setup"
    /\ IF error # "none"
       THEN result' = "False" /\ pc' = "m_setup"
       ELSE UNCHANGED result /\ pc' = "c_cron"
    /\ UNCHANGED <<envVars, logged, temp_dir, tempExists, imported, backupVars,
                   live, running, container_name, calls, trace, failedAt, error,
                   exitCode>>

\* crontab -l, the new content, crontab -: True on exit 0, else False and the
\* crontab as it was
Setup_Cron ==
    /\ pc = "c_cron"
    /\ \E ok \in BOOLEAN :
         /\ trace' = Append(trace, Step("crontab", ok))
         /\ IF ok
            THEN /\ crontab' = new_crontab(crontab, backup_interval)
                 /\ result' = "True"
            ELSE /\ UNCHANGED crontab
                 /\ result' = "False"
    /\ pc' = "m_setup"
    /\ UNCHANGED <<argVars, db_type, logged, temp_dir, tempExists, imported,
                   backupVars, live, running, container_name, calls, failedAt,
                   error, exitCode>>

\* if setup_cronjob_flow(interactive=False): sys.exit(0) else: sys.exit(1)
Main_Setup ==
    /\ pc = "m_setup"
    /\ exitCode' = IF result = "True" THEN 0 ELSE 1
    /\ pc' = "halt"
    /\ UNCHANGED <<envVars, logged, restoreVars, backupVars, live, running,
                   container_name, calls, trace, failedAt, error>>

-----------------------------------------------------------------------------
Init ==
    /\ pc = "m_start"
    /\ command \in Commands
    /\ argPath \in IF command = "do-restore" THEN {"none", "missing", "present"} ELSE {"none"}
    /\ config \in ConfigChoices
    /\ live \in LiveChoices
    /\ live0 = live
    /\ running \in {Services, {}}
    /\ hostContainers \in HostChoices
    /\ zip \in IF argPath = "present" THEN ZipChoices ELSE {NoArchive}
    /\ temp_dir = {}
    /\ tempExists = FALSE
    /\ container_name = None
    /\ calls = <<>>
    /\ trace = <<>>
    /\ failedAt = "none"
    /\ error = "none"
    /\ result = "none"
    /\ exitCode = -1
    /\ backup_temp_dir = {}
    /\ backupTempExists = FALSE
    /\ zipfile_ = NoArchive
    /\ uploaded = NoArchive
    /\ todo = <<>>
    /\ dumped = {}
    /\ imported = {}
    /\ logged = {}
    /\ bot_tasks = <<>>
    /\ conversational_states = <<>>
    /\ backup_interval \in IF command = "do-auto-backup-setup"
                            THEN {"none", "30", "60"} ELSE {"none"}
    /\ crontab \in IF command = "do-auto-backup-setup"
                    THEN CrontabChoices ELSE {<<>>}
    /\ forwarded = {}
    /\ rejected = {}
    /\ db_type = "none"
    /\ crontab0 = crontab
    /\ last_backup_time = "none"
    /\ event = [chat |-> "none", kind |-> "none", returncode |-> -1]

Next ==
    \/ Main_Start
    \/ Restore_Enter
    \/ Restore_Open
    \/ Restore_Down
    \/ Restore_Copy
    \/ Restore_Db
    \/ Restore_Up
    \/ Restore_Sleep
    \/ Restore_Find
    \/ Restore_Test
    \/ Restore_Import
    \/ Restore_FinalDown
    \/ Restore_FinalUp
    \/ Restore_Done
    \/ Restore_Except
    \/ Restore_Exit
    \/ Main_Restored
    \/ Backup_Enter
    \/ Backup_Find
    \/ Backup_List
    \/ Backup_Dump
    \/ Backup_Fs
    \/ Backup_Archive
    \/ Backup_Upload
    \/ Backup_Except
    \/ Backup_Finally
    \/ Main_BackedUp
    \/ Setup_Check
    \/ Setup_Tested
    \/ Setup_Cron
    \/ Main_Setup

Spec == Init /\ [][Next]_vars

\* KeyboardInterrupt (Ctrl-C, SIGINT) while run_restore_process is past its
\* stop: `except Exception` does not catch it, the with block removes the
\* temporary directory, and the handler under __main__ exits 0
Restore_Interrupt ==
    /\ pc \in {"r_copy", "r_db", "r_up", "r_sleep", "r_find", "r_test",
                "r_import", "r_final_down", "r_final_up", "r_except"}
    /\ error' = "KeyboardInterrupt"
    /\ trace' = Append(trace, Step("interrupt", FALSE))
    /\ temp_dir' = {}
    /\ tempExists' = FALSE
    /\ exitCode' = 0
    /\ pc' = "halt"
    /\ UNCHANGED <<envVars, logged, backupVars, live, running, container_name, calls,
                   failedAt, result, imported>>

\* the runs of Spec, and those an interrupt from the terminal cuts short
NextInterrupt == Next \/ Restore_Interrupt

SpecInterrupt == Init /\ [][NextInterrupt]_vars

-----------------------------------------------------------------------------
(* marzban_bot.py: the handlers of MarzbanControlBot, and the panel commands
   they launch seen from the bot: started, in flight, exited *)

panelVars == <<logged, pc, command, argPath, config, live, live0, running,
               hostContainers, zip, temp_dir, tempExists, container_name,
               calls, trace, failedAt, error, result, exitCode,
               backup_temp_dir, backupTempExists, zipfile_, uploaded, todo,
               dumped, imported, db_type, crontab0>>

\* how many handler tasks the event loop holds at most
MaxTasks == 2
TaskIds == 1..MaxTasks

\* the documents the admin can send: the file name's suffix, the container
\* format of the content, the members
NoDoc == [suffix |-> "", format |-> "", members |-> {}]
Doc(suffix, format, members) ==
    [suffix |-> suffix, format |-> format, members |-> members]
PanelLayout ==
    { Dir(<<"filesystem">>), File(<<"filesystem", "opt", "marzban", ".env">>, "bak"),
      File(<<"database", "marzban.sql">>, "bak") }
BotLayout ==
    { Dir(<<"filesystem">>), File(<<"filesystem", "opt", "marzban", ".env">>, "bak"),
      File(<<"db_dumps", "marzban.sql">>, "bak") }
DocChoices ==
    { Doc(".zip", "zip", PanelLayout), Doc(".tar.gz", "tar.gz", PanelLayout),
      Doc(".tar.gz", "tar.gz", BotLayout) }

\* what run-backup sends to the admin: a zip file in the panel's layout
BackupDoc == Doc(".zip", "zip", PanelLayout)

\* the chats updates come from; admin_id is telegram.admin_chat_id
admin_id == "admin"
ChatIds == {"admin", "other"}
Update(chat, kind) == [chat |-> chat, kind |-> kind, returncode |-> NotRun]
ProcessExit(returncode) ==
    [chat |-> "none", kind |-> "exit", returncode |-> returncode]
NoEvent == [chat |-> "none", kind |-> "none", returncode |-> NotRun]

FreeTask == [cmd |-> "none", stage |-> "free", interval |-> "none", doc |-> NoDoc]
Launched(cmd, interval, doc) ==
    [cmd |-> cmd, stage |-> "running", interval |-> interval, doc |-> doc]

\* m.startswith(prefix + '/') for a name of tar.getnames(); a directory's own
\* name has no '/' at its end
TarStartsWith(m, prefix) == Len(m.p) > 1 /\ m.p[1] = prefix

\* the pre-check of _process_restore_file
PreCheck(doc) ==
    /\ doc.suffix = ".tar.gz"
    /\ doc.format = "tar.gz"
    /\ \E m \in doc.members : TarStartsWith(m, "filesystem")
    /\ \E m \in doc.members : TarStartsWith(m, "db_dumps")

\* zipfile.ZipFile(zip_path, 'r') of run_restore_process opens the file
PanelOpens(doc) == doc.format = "zip"

\* the handler's coroutine takes the first task the event loop has free
FirstFree(t) ==
    /\ bot_tasks[t].stage = "free"
    /\ \A u \in TaskIds : u < t => bot_tasks[u].stage # "free"

\* faulty variant: the wrapper calls the handler for every chat
admin_only_Open(chat) == TRUE

\* admin_only: the handler is called when chat_id == self.admin_id
admin_only(chat) == chat = admin_id

\* an update from another chat, a message here: the wrapper returns
Bot_Unauthorized(chat) ==
    /\ ~admin_only(chat)
    /\ event' = Update(chat, "message")
    /\ UNCHANGED <<panelVars, bot_tasks, conversational_states, backup_interval,
                   crontab, forwarded, rejected, last_backup_time>>

\* /start: handle_start, the first handler registered, shows the main menu
Bot_Start(chat) ==
    /\ admin_only(chat)
    /\ event' = Update(chat, "message")
    /\ UNCHANGED <<panelVars, bot_tasks, conversational_states, backup_interval,
                   crontab, forwarded, rejected, last_backup_time>>

\* CB_DO_BACKUP: handle_backup launches run-backup and awaits it
Bot_Backup(chat, t) ==
    /\ admin_only(chat)
    /\ FirstFree(t)
    /\ bot_tasks' = [bot_tasks EXCEPT ![t] = Launched("run-backup", "none", NoDoc)]
    /\ event' = Update(chat, "callback")
    /\ UNCHANGED <<panelVars, conversational_states, backup_interval, crontab,
                   forwarded, rejected, last_backup_time>>

\* CB_RESTORE_CONFIRM, CB_AUTOBACKUP_ENABLE / CB_AUTOBACKUP_EDIT: the next
\* message of the chat is awaited
Bot_Ask(chat, state) ==
    /\ admin_only(chat)
    /\ conversational_states' = [conversational_states EXCEPT ![chat] = state]
    /\ event' = Update(chat, "callback")
    /\ UNCHANGED <<panelVars, bot_tasks, backup_interval, crontab, forwarded,
                   rejected, last_backup_time>>

\* CB_AUTOBACKUP_DISABLE: handle_autobackup_disable removes backup_interval
\* from config.json and launches do-auto-backup-setup, which loads the config
Bot_Disable(chat, t) ==
    /\ admin_only(chat)
    /\ FirstFree(t)
    /\ backup_interval' = "none"
    /\ bot_tasks' = [bot_tasks EXCEPT
                       ![t] = Launched("do-auto-backup-setup", "none", NoDoc)]
    /\ event' = Update(chat, "callback")
    /\ UNCHANGED <<panelVars, conversational_states, crontab, forwarded, rejected,
                   last_backup_time>>

\* handle_stateful_messages, state awaiting_interval: _process_interval_input
Bot_Interval(chat, t, text) ==
    /\ conversational_states[chat] = "awaiting_interval"
    /\ admin_only(chat)
    /\ FirstFree(t)
    /\ conversational_states' = [conversational_states EXCEPT ![chat] = "none"]
    /\ IF text \in {"30", "60"}
       THEN /\ backup_interval' = text
            /\ bot_tasks' = [bot_tasks EXCEPT
                               ![t] = Launched("do-auto-backup-setup", text, NoDoc)]
       ELSE UNCHANGED <<backup_interval, bot_tasks>>
    /\ event' = Update(chat, "message")
    /\ UNCHANGED <<panelVars, crontab, forwarded, rejected, last_backup_time>>

\* handle_stateful_messages, state awaiting_restore_file: _process_restore_file
Bot_RestoreFile(chat, t, doc) ==
    /\ conversational_states[chat] = "awaiting_restore_file"
    /\ admin_only(chat)
    /\ FirstFree(t)
    /\ conversational_states' = [conversational_states EXCEPT ![chat] = "none"]
    /\ IF PreCheck(doc)
       THEN /\ forwarded' = forwarded \cup {doc}
            /\ bot_tasks' = [bot_tasks EXCEPT ![t] = Launched("do-restore", "none", doc)]
            /\ UNCHANGED rejected
       ELSE /\ rejected' = rejected \cup {doc}
            /\ UNCHANGED <<forwarded, bot_tasks>>
    /\ event' = Update(chat, "message")
    /\ UNCHANGED <<panelVars, backup_interval, crontab, last_backup_time>>

\* setup_cronjob_flow(interactive=False) as the panel process of task t ends:
\* no interval, or a failed test backup, or a failed crontab command: exit 1
\* and the crontab as it was
Panel_Setup(t, returncode) ==
    /\ bot_tasks[t].cmd = "do-auto-backup-setup"
    /\ IF bot_tasks[t].interval = "none"
       THEN returncode = 1 /\ UNCHANGED crontab
       ELSE \E test_ok, crontab_ok \in BOOLEAN :
              IF test_ok /\ crontab_ok
              THEN /\ returncode = 0
                   /\ crontab' = new_crontab(crontab, bot_tasks[t].interval)
              ELSE returncode = 1 /\ UNCHANGED crontab

\* run-backup and do-restore as the panel process of task t ends; a restore
\* of a file the panel cannot open exits 1
Panel_Other(t, returncode) ==
    /\ bot_tasks[t].cmd \in {"run-backup", "do-restore"}
    /\ (bot_tasks[t].cmd = "do-restore" /\ ~PanelOpens(bot_tasks[t].doc))
          => returncode = 1
    /\ UNCHANGED crontab

\* the value update_state writes for a command that has exited with returncode
new_last_backup_time(cmd, returncode, current) ==
    IF returncode = 0 /\ cmd = "run-backup" THEN "timestamp"
    ELSE IF returncode = 0 /\ cmd = "do-restore" THEN "restored"
    ELSE current

\* faulty variant: the state is updated whatever the exit code was
Bot_PanelExit_AnyExit(t) ==
    /\ bot_tasks[t].stage = "running"
    /\ \E returncode \in {0, 1} :
         /\ Panel_Setup(t, returncode) \/ Panel_Other(t, returncode)
         /\ last_backup_time' =
               new_last_backup_time(bot_tasks[t].cmd, 0, last_backup_time)
         /\ event' = ProcessExit(returncode)
    /\ bot_tasks' = [bot_tasks EXCEPT ![t] = FreeTask]
    /\ UNCHANGED <<panelVars, conversational_states, backup_interval, forwarded,
                   rejected>>

\* await process.wait() / process.communicate(): the panel process of task t
\* has exited; if success: update_state('last_backup_time', ...)
Bot_PanelExit(t) ==
    /\ bot_tasks[t].stage = "running"
    /\ \E returncode \in {0, 1} :
         /\ Panel_Setup(t, returncode) \/ Panel_Other(t, returncode)
         /\ last_backup_time' =
               new_last_backup_time(bot_tasks[t].cmd, returncode, last_backup_time)
         /\ event' = ProcessExit(returncode)
    /\ bot_tasks' = [bot_tasks EXCEPT ![t] = FreeTask]
    /\ UNCHANGED <<panelVars, conversational_states, backup_interval, forwarded,
                   rejected>>

InitBot ==
    /\ pc = "bot"
    /\ command = "none"
    /\ argPath = "none"
    /\ config = [present |-> TRUE, telegram |-> TRUE, database |-> TRUE]
    /\ live = {}
    /\ live0 = {}
    /\ running = Services
    /\ hostContainers = <<AppContainer>>
    /\ zip = NoArchive
    /\ temp_dir = {}
    /\ tempExists = FALSE
    /\ container_name = None
    /\ calls = <<>>
    /\ trace = <<>>
    /\ failedAt = "none"
    /\ error = "none"
    /\ result = "none"
    /\ exitCode = -1
    /\ backup_temp_dir = {}
    /\ backupTempExists = FALSE
    /\ zipfile_ = NoArchive
    /\ uploaded = NoArchive
    /\ todo = <<>>
    /\ dumped = {}
    /\ imported = {}
    /\ logged = {}
    /\ bot_tasks = [t \in TaskIds |-> FreeTask]
    /\ conversational_states = [chat \in ChatIds |-> "none"]
    /\ \E interval \in {"none", "30"} :
         /\ backup_interval = interval
         /\ crontab = IF interval = "none" THEN <<OtherLine>>
                      ELSE <<OtherLine, cron_command(interval)>>
    /\ forwarded = {}
    /\ rejected = {}
    /\ db_type = "none"
    /\ crontab0 = crontab
    /\ last_backup_time = "none"
    /\ event = NoEvent

NextBot ==
    \/ \E chat \in ChatIds : Bot_Unauthorized(chat)
    \/ \E chat \in ChatIds : Bot_Start(chat)
    \/ \E chat \in ChatIds, t \in TaskIds : Bot_Backup(chat, t)
    \/ \E chat \in ChatIds, state \in {"awaiting_interval", "awaiting_restore_file"} :
         Bot_Ask(chat, state)
    \/ \E chat \in ChatIds, t \in TaskIds : Bot_Disable(chat, t)
    \/ \E chat \in ChatIds, t \in TaskIds, text \in {"30", "60", "0", "abc"} :
         Bot_Interval(chat, t, text)
    \/ \E chat \in ChatIds, t \in TaskIds, doc \in DocChoices :
         Bot_RestoreFile(chat, t, doc)
    \/ \E t \in TaskIds : Bot_PanelExit(t)

SpecBot == InitBot /\ [][NextBot]_vars

-----------------------------------------------------------------------------
(* Properties *)

IsRestore == command = "do-restore"
TraceHas(step, ok) == \E i \in 1..Len(trace) : trace[i] = Step(step, ok)
StepTaken(step) == \E i \in 1..Len(trace) : trace[i].step = step
\* run_restore_process ran and has returned
Returned == pc \in {"r_exit", "m_restored", "halt"} /\ trace # <<>>

\* the member names a top-level directory of the archive holds
TopLevel(members) == { m.p[1] : m \in members }

\* the place of a restore step in the order of the restore sequencer; the final
\* restart (down, then up -d) is the full service start
RestoreRank(step) ==
    CASE step = "extract" -> 1
      [] step = "stop" -> 2
      [] step \in {"copytree", "clear_mysql"} -> 3
      [] step = "start_db" -> 4
      [] step = "wait" -> 5
      [] step \in {"find", "test"} -> 6
      [] step = "import" -> 7
      [] step \in {"final_down", "final_up"} -> 8
      [] step = "done" -> 9
      [] OTHER -> 0

\* C1: the restore steps occur in the strict order extract, stop, restore the
\* filesystem, start the database, wait, readiness query, import, full service
\* start, Done, and a step begins only after the step before it has completed
\* successfully (the final restart counts by its up -d).
C1_StrictOrder ==
    IsRestore =>
        \A i \in 1..(Len(trace) - 1) :
            /\ RestoreRank(trace[i].step) <= RestoreRank(trace[i + 1].step)
            /\ (trace[i].step # "final_down" => trace[i].ok)

\* C2: an archive with no member under filesystem/ makes restore fail with the
\* structural-validation error, with no "down" ever invoked and the live
\* filesystem untouched.
C2_NoFilesystemFailsFast ==
    (IsRestore /\ zip.ok /\ "filesystem" \notin TopLevel(zip.members)) =>
        /\ \A i \in 1..Len(calls) : calls[i].action # "down"
        /\ live = live0
        /\ pc \in {"m_start", "r_enter", "r_open", "r_except", "r_exit", "m_restored", "halt"}
        /\ trace # <<>> => error = "InvalidStructure"
        /\ Returned => result = "False"

C2_Witness ==
    /\ IsRestore /\ zip.ok /\ "filesystem" \notin TopLevel(zip.members)
    /\ "database" \in TopLevel(zip.members)
    /\ pc = "halt" /\ result = "False" /\ error = "InvalidStructure"

\* C3: a restore that failed at any step has attempted the safety-net "up -d"
\* before it returns, and returns False.
C3_SafetyNet ==
    (IsRestore /\ failedAt # "none" /\ pc # "r_except") =>
        /\ result = "False"
        /\ Len(calls) > 0
        /\ calls[Len(calls)].action = "up -d"
        /\ calls[Len(calls)].site = "safety"

C3_Witness ==
    /\ IsRestore /\ failedAt = "import" /\ pc = "halt"
    /\ result = "False" /\ exitCode = 1
    /\ calls[Len(calls)].site = "safety"

\* C4: restore changes the live filesystem only when its last service command
\* was a successful "down": after the stop and before any later "up".
C4_WritesWhileStopped ==
    [][ live' # live =>
          /\ Len(calls) > 0
          /\ calls[Len(calls)].action = "down" /\ calls[Len(calls)].site = "stop"
          /\ calls[Len(calls)].ok
          /\ running = {} ]_vars

C4_Witness ==
    /\ IsRestore /\ live # live0
    /\ TraceHas("copytree", TRUE) /\ TraceHas("clear_mysql", TRUE)
    /\ pc = "r_up"

\* C5: between the filesystem restore and the end of the import only the
\* database service runs; the application services are not up.
C5_DatabaseAlone ==
    (IsRestore /\ pc \in {"r_sleep", "r_find", "r_test", "r_import"}) =>
        "marzban" \notin running

\* C6: the import command is issued only after the container was found and the
\* SELECT 1 succeeded; a failed readiness query means no import at all.
C6_ImportAfterReady ==
    IsRestore =>
        /\ \A i \in 1..Len(trace) :
             trace[i].step = "import" =>
                /\ \E j \in 1..(i - 1) : trace[j] = Step("find", TRUE)
                /\ \E k \in 1..(i - 1) : trace[k] = Step("test", TRUE)
                /\ container_name # None
        /\ (TraceHas("test", FALSE) \/ TraceHas("find", FALSE)) => ~StepTaken("import")

C6_Witness ==
    IsRestore /\ TraceHas("import", TRUE) /\ TraceHas("test", TRUE)

\* C7: exit code 0 only when every step of the operation succeeded.
C7_ExitZeroOnlyOnSuccess ==
    exitCode = 0 => \A i \in 1..Len(trace) : trace[i].ok

\* C8: the top-level members of an archive run_full_backup produced are drawn
\* only from db_dumps/ and filesystem/.
C8_TopLevelMembers ==
    zipfile_.ok => TopLevel(zipfile_.members) \subseteq {"db_dumps", "filesystem"}

\* C9 as stated: the archive is rejected on structure exactly when neither
\* db_dumps/ nor filesystem/ is among its members.
C9_RejectIffNeither ==
    (IsRestore /\ zip.ok /\ trace # <<>>) =>
        (error = "InvalidStructure"
            <=> TopLevel(zip.members) \cap {"db_dumps", "filesystem"} = {})

\* C9 amended: the archive is rejected on structure exactly when no member
\* under filesystem/ is among its members; an archive with such a member
\* passes the validation and extractall runs on it.
C9_RejectIffNoFilesystem ==
    (IsRestore /\ zip.ok /\ trace # <<>>) =>
        /\ error = "InvalidStructure" <=> "filesystem" \notin TopLevel(zip.members)
        /\ "filesystem" \in TopLevel(zip.members) =>
              IF trace[1].ok
              THEN tempExists => temp_dir = Norm(zip.members)
              ELSE error = "ExtractError"

C9_Witness ==
    /\ IsRestore /\ zip.ok /\ pc = "r_down"
    /\ TopLevel(zip.members) = {"filesystem"}
    /\ temp_dir = Norm(zip.members)

\* C10: an archive run_full_backup produced passes restore's validation, has
\* every dump in the directory restore reads dumps from, and restore's copy of
\* its filesystem tree puts back every file the snapshot took, at its path.
C10_LayoutRoundTrips ==
    zipfile_.ok =>
        LET extracted == Norm(zipfile_.members)
            restored == Moved(extracted, fs_restore_path, <<>>)
        IN  /\ ValidStructure(zipfile_.members)
            /\ \A db \in dumped :
                 /\ isdir(extracted, db_restore_path)
                 /\ SqlName(db) \in listdir(extracted, db_restore_path)
            /\ \A i \in 1..Len(FILES_TO_BACKUP) :
                 \A n \in live :
                    (Under(FILES_TO_BACKUP[i], n.p) /\ ~Skipped(FILES_TO_BACKUP[i], n.p))
                        => n \in restored

C10_Witness ==
    /\ uploaded.ok /\ exitCode = 0
    /\ dumped = {"marzban", "other"}
    /\ \E m \in uploaded.members : m.p = <<"filesystem", "opt", "marzban", ".env">>

IsBackup == command \in {"run-backup", "do-backup"}

\* the dump files in the dump directory of the archive given to restore
ArchiveDumps == listdir(Norm(zip.members), db_restore_path)

\* what the archive given to restore holds for the live filesystem
ArchiveTree == Moved(Norm(zip.members), fs_restore_path, <<>>)

\* run_restore_process returned True and none of its steps failed
RestoreSucceeded ==
    IsRestore /\ result = "True" /\ \A i \in 1..Len(trace) : trace[i].ok

\* C11: restore reports success only when every dump file of the archive's
\* dump directory has been imported.
C11_AllDumpsImported ==
    RestoreSucceeded => ArchiveDumps \subseteq imported

\* C12: after a successful restore a destination tree the archive has a copy
\* of holds no file from before the restore that the archive does not have
\* (restore replaces, it does not merge).
C12_ReplaceNotMerge ==
    RestoreSucceeded =>
        \A i \in 1..Len(FILES_TO_BACKUP) :
            isdir(ArchiveTree, FILES_TO_BACKUP[i]) =>
                \A n \in live0 :
                    (/\ ~n.d
                     /\ Under(FILES_TO_BACKUP[i], n.p)
                     /\ ~ \E a \in ArchiveTree : a.p = n.p)
                        => ~ \E m \in live : m.p = n.p

\* C13: when restore reports success, every live path it removed or cleared
\* has its replacement from the archive in place: nothing but the MySQL data
\* directory was removed, and if that was cleared the dumps of the archive
\* were imported.
C13_NoDeleteWithoutReplacement ==
    RestoreSucceeded =>
        /\ \A n \in live0 :
             (~ \E m \in live : m.p = n.p) => IsPrefix(mysql_data_dir, n.p)
        /\ TraceHas("clear_mysql", TRUE) =>
             (imported # {} /\ ArchiveDumps \subseteq imported)

\* run_restore_process has returned to main
RestoreReturned == IsRestore /\ pc \in {"m_restored", "halt"} /\ result # "none"

\* C14: once run_restore_process has returned, with True or with False, the
\* temporary directory it extracted the archive into is gone.
C14_StagingRemoved ==
    RestoreReturned => (~tempExists /\ temp_dir = {})

\* a restore that extracted the archive, failed later, and has returned False
C14_Witness ==
    /\ RestoreReturned
    /\ result = "False"
    /\ TraceHas("extract", TRUE)
    /\ ~tempExists

\* run_full_backup has terminated by raising
BackupFailed == IsBackup /\ pc \in {"m_backed_up", "halt"} /\ error # "none"

\* C15: after run_full_backup ends in failure, whatever the failing step,
\* neither the staging directory nor the archive file exists.
C15_NoArtifactAfterFailure ==
    BackupFailed =>
        /\ ~backupTempExists
        /\ backup_temp_dir = {}
        /\ ~zipfile_.exists

\* the upload failed after the archive had been written, and the run is over
C15_Witness ==
    /\ BackupFailed
    /\ failedAt = "upload"
    /\ TraceHas("archive", TRUE)
    /\ ~zipfile_.exists
    /\ exitCode = 1

\* container discovery of run_full_backup has run and found no container
BackupFoundNone == IsBackup /\ trace # <<>> /\ container_name = None

\* an archive with the filesystem/ directory and nothing of the dump directory
FilesystemOnly(a) ==
    /\ \E m \in a.members : m.p = fs_zip_path
    /\ \A m \in a.members : ~IsPrefix(db_zip_path, m.p)

\* C16: when discovery finds no database container, run_full_backup lists and
\* dumps nothing, goes on to the filesystem snapshot, archives filesystem/
\* without dump members, and does not fail at the discovery.
C16_NoContainerSkipsDatabase ==
    BackupFoundNone =>
        /\ trace[1] = Step("skip_db", TRUE)
        /\ ~StepTaken("list") /\ ~StepTaken("dump")
        /\ dumped = {}
        /\ \A n \in backup_temp_dir : ~IsPrefix(db_zip_path, n.p)
        /\ Len(trace) >= 2 => trace[2].step = "snapshot"
        /\ failedAt \notin {"find", "skip_db", "list", "dump"}
        /\ TraceHas("archive", TRUE) /\ pc = "b_upload" => FilesystemOnly(zipfile_)
        /\ uploaded.exists => FilesystemOnly(uploaded)

\* credentials configured, no container found, and the backup was delivered
C16_Witness ==
    /\ BackupFoundNone
    /\ config.database
    /\ uploaded.exists
    /\ FilesystemOnly(uploaded)
    /\ exitCode = 0

\* container discovery of run_restore_process has run and found no container
RestoreFoundNone == IsRestore /\ StepTaken("find") /\ container_name = None

DumpFailedAmongSeveral ==
    IsBackup /\ TraceHas("dump", FALSE) /\ Len(todo) >= 2

\* C18: a dump failure stays with its database: the databases after it are
\* still dumped into the staging directory, and the run is not aborted by it.
C18_DumpFailureContained ==
    (DumpFailedAmongSeveral /\ backupTempExists) =>
        /\ failedAt # "dump"
        /\ \A i \in 2..Len(todo) :
              exists(backup_temp_dir, Join(db_zip_path, <<SqlName(todo[i])>>))

\* the import command of this restore exited non-zero
ImportFailed == IsRestore /\ TraceHas("import", FALSE)

\* C19: a failed import aborts the restore: it is the last step of the
\* sequence, nothing is imported after it, the safety restart is the next
\* service command, the restore returns False and the process exits 1.
C19_ImportFailureAborts ==
    ImportFailed =>
        /\ trace[Len(trace)] = Step("import", FALSE)
        /\ \A i \in 1..(Len(trace) - 1) : trace[i].step # "import"
        /\ failedAt = "import"
        /\ imported = {}
        /\ result # "True"
        /\ pc \in {"r_except", "r_exit", "m_restored", "halt"}
        /\ pc # "r_except" =>
              /\ result = "False"
              /\ calls[Len(calls)].action = "up -d"
              /\ calls[Len(calls)].site = "safety"
        /\ pc = "halt" => exitCode = 1

\* the import of marzban.sql failed in an archive that held a second dump,
\* and the process has exited
C19_Witness ==
    /\ ImportFailed
    /\ Cardinality(ArchiveDumps) >= 2
    /\ pc = "halt"
    /\ exitCode = 1
    /\ result = "False"

\* the copy, in a staging tree or an archive, of the MySQL data directory and
\* of the log directory of /var/lib/marzban
StagedExcluded(tree) ==
    { n \in tree :
        \E x \in {"mysql", "logs"} :
            IsPrefix(dest_path(Join(FILES_TO_BACKUP[1], <<x>>)), n.p) }

\* C20: nothing of /var/lib/marzban/mysql or /var/lib/marzban/logs is ever in
\* the staging directory of a backup, nor in the archive made of it.
C20_NoLiveDbOrLogsStaged ==
    /\ StagedExcluded(backup_temp_dir) = {}
    /\ StagedExcluded(zipfile_.members) = {}
    /\ StagedExcluded(uploaded.members) = {}

\* the snapshot of a live tree holding MySQL data and logs is done, and the
\* rest of /var/lib/marzban is staged
C20_Witness ==
    /\ IsBackup
    /\ pc = "b_archive"
    /\ TraceHas("snapshot", TRUE)
    /\ exists(live, <<"var", "lib", "marzban", "mysql", "ibdata1">>)
    /\ exists(live, <<"var", "lib", "marzban", "logs", "access.log">>)
    /\ exists(backup_temp_dir, dest_path(<<"var", "lib", "marzban", "xray_config.json">>))

\* the filesystem snapshot of run_full_backup has completed
SnapshotDone == IsBackup /\ pc = "b_archive" /\ TraceHas("snapshot", TRUE)

\* C21: the exclusion touches the copy of /var/lib/marzban only: every file
\* and directory under /opt/marzban, whatever its name or depth, is staged.
C21_OtherTreesUntouched ==
    SnapshotDone =>
        \A n \in live :
            Under(FILES_TO_BACKUP[2], n.p) =>
                \E m \in backup_temp_dir :
                    m.p = dest_path(n.p) /\ m.d = n.d /\ m.c = n.c

\* find_database_container has just returned, to run_full_backup or to
\* run_restore_process, and no service command has run since
JustDiscovered ==
    \/ IsBackup /\ Len(trace) = 1
    \/ IsRestore /\ trace # <<>> /\ trace[Len(trace)].step = "find"
                 /\ pc \in {"r_test", "r_except"}

\* the positions, in the listing of running containers, of those whose image
\* is a database engine, and of those among them named after the application
ImageMatches ==
    { i \in 1..Len(hostContainers) :
        /\ hostContainers[i].svc \in running
        /\ \E k \in 1..Len(hostContainers[i].image) :
              \/ Contains(hostContainers[i].image[k], "mysql")
              \/ Contains(hostContainers[i].image[k], "mariadb") }
NamedMatches ==
    { i \in ImageMatches :
        \E k \in 1..Len(hostContainers[i].name) :
            Contains(Lower(hostContainers[i].name[k]), "marzban") }
First(S) == CHOOSE i \in S : \A j \in S : i <= j

\* C22 as stated: a match named after the application if there is one,
\* otherwise the first match, none-found only without any match.
C22_FirstMatchFallback ==
    JustDiscovered =>
        IF NamedMatches # {}
        THEN \E i \in NamedMatches : container_name = hostContainers[i].name
        ELSE IF ImageMatches # {}
        THEN container_name = hostContainers[First(ImageMatches)].name
        ELSE container_name = None

\* the positions of the running containers whose listing line (name and image)
\* has mysql or mariadb, and among them of those whose line has marzban
LineMatches ==
    { i \in 1..Len(hostContainers) :
        /\ hostContainers[i].svc \in running
        /\ LineHas(hostContainers[i], "mysql") \/ LineHas(hostContainers[i], "mariadb") }
LineNamed == { i \in LineMatches : LineLowerHas(hostContainers[i], "marzban") }

\* C22 amended: the name on the first matching line that has marzban in it,
\* if there is one; none-found otherwise, also when other lines match.
C22_NamedMatchOrNone ==
    JustDiscovered =>
        IF LineNamed # {}
        THEN container_name = hostContainers[First(LineNamed)].name
        ELSE container_name = None

\* discovery passed over a database container with another name and returned
\* the one named after the application
C22_Witness ==
    /\ JustDiscovered
    /\ NamedMatches # {}
    /\ First(LineMatches) \notin LineNamed
    /\ container_name = hostContainers[First(LineNamed)].name

\* C23: a restore that got past stopping the services and has terminated
\* either completed, or failed with the safety restart attempted.
C23_DoneOrSafetyRestart ==
    (IsRestore /\ TraceHas("stop", TRUE) /\ pc = "halt") =>
        \/ result = "True"
        \/ /\ result = "False"
           /\ \E i \in 1..Len(calls) : calls[i].action = "up -d" /\ calls[i].site = "safety"

\* C25: no message of the log or the console has the database password in it.
C25_PasswordNeverLogged ==
    \A m \in logged : \A i \in 1..Len(m) : m[i] # db_pass

\* C26: run_marzban_command returns True exactly on exit status 0, False on
\* every other status and when /opt/marzban is missing; whatever it returns,
\* the sequencer goes on from the call: a restore fails at a service command
\* only by its own raise after a False.
C26_ReturnsExitStatus ==
    /\ \A i \in 1..Len(calls) :
          /\ calls[i].ok = (calls[i].status = 0)
          /\ calls[i].status = NotRun => ~calls[i].ok
    /\ (IsRestore /\ failedAt = "stop") =>
          (error = "CouldNotStop" /\ ~calls[1].ok /\ calls[1].action = "down")
    /\ (IsRestore /\ failedAt = "start_db") =>
          (error = "CouldNotStart"
           /\ \E i \in 1..Len(calls) : calls[i].site = "init" /\ ~calls[i].ok)

\* "down" has exited 0 and returned True, "up -d" has exited with another
\* status and returned False, and the restore went on to its end
C26_Witness ==
    /\ IsRestore /\ pc = "halt"
    /\ \E i \in 1..Len(calls) :
          calls[i].action = "down" /\ calls[i].status = 0 /\ calls[i].ok
    /\ \E i \in 1..Len(calls) :
          calls[i].action = "up -d" /\ calls[i].status = 125 /\ ~calls[i].ok

\* the place of a backup step in Idle, dump, snapshot, archiving, Done
BackupRank(step) ==
    CASE step \in {"find", "skip_db"} -> 1
      [] step = "list" -> 2
      [] step = "dump" -> 3
      [] step = "snapshot" -> 4
      [] step = "archive" -> 5
      [] step = "upload" -> 6
      [] OTHER -> 0

\* C27: the steps of run_full_backup come in the order discovery, dumps,
\* snapshot, archive, upload; each starts only after the one before it has
\* completed (the snapshot after the last dump), and a failed step is the
\* last step of the run.
C27_BackupOrder ==
    IsBackup =>
        /\ \A i, j \in 1..Len(trace) :
              i < j => /\ trace[i].ok
                       /\ BackupRank(trace[i].step) <= BackupRank(trace[j].step)
                       /\ BackupRank(trace[i].step) = BackupRank(trace[j].step)
                            => trace[i].step = "dump"
        /\ \A j \in 2..Len(trace) :
              BackupRank(trace[j].step) >= 4 =>
                  BackupRank(trace[j - 1].step) \in
                      IF trace[j].step = "snapshot" THEN {1, 2, 3}
                      ELSE {BackupRank(trace[j].step) - 1}
        /\ StepTaken("snapshot") => todo = <<>>
        /\ StepTaken("archive") => TraceHas("snapshot", TRUE)
        /\ StepTaken("upload") => TraceHas("archive", TRUE)
        /\ uploaded.exists => TraceHas("upload", TRUE)
        /\ error # "none" => (trace # <<>> /\ ~trace[Len(trace)].ok
                               /\ trace[Len(trace)].step = failedAt)

\* a backup of two databases that went through every step and exited 0
C27_Witness ==
    /\ IsBackup /\ pc = "halt" /\ exitCode = 0
    /\ Len(SelectSeq(trace, LAMBDA t : t.step = "dump")) = 2
    /\ TraceHas("upload", TRUE)

\* C28: a path of FILES_TO_BACKUP that does not exist is passed over: when the
\* snapshot has completed, the paths that exist are staged, the missing one
\* has no entry in the staging directory, and the archive step follows.
C28_MissingSourceSkipped ==
    IsBackup =>
        /\ (TraceHas("snapshot", TRUE) /\ backupTempExists) =>
              \A i \in 1..Len(FILES_TO_BACKUP) :
                  exists(backup_temp_dir, dest_path(FILES_TO_BACKUP[i]))
                      <=> exists(live, FILES_TO_BACKUP[i])
        /\ (trace # <<>> /\ trace[Len(trace)] = Step("snapshot", TRUE)) =>
              pc = "b_archive"

\* /var/lib/marzban is missing, /opt/marzban is there and has been staged
C28_Witness ==
    /\ IsBackup /\ pc = "b_archive"
    /\ ~exists(live, FILES_TO_BACKUP[1])
    /\ exists(live, FILES_TO_BACKUP[2])
    /\ exists(backup_temp_dir, dest_path(FILES_TO_BACKUP[2]))
    /\ ~exists(backup_temp_dir, dest_path(FILES_TO_BACKUP[1]))

\* the handler tasks of the bot whose panel process has not exited yet
InFlight == { t \in DOMAIN bot_tasks : bot_tasks[t].stage = "running" }

\* C24: the bot never has two panel processes in flight at once.
C24_RunsSerialized ==
    Cardinality(InFlight) <= 1

\* C29: a document the bot's pre-check lets through can be opened by
\* run_restore_process and passes its structural validation, and the file
\* run-backup sends, sent back unchanged, is let through.
C29_PreCheckedIsRestorable ==
    /\ \A doc \in forwarded : PanelOpens(doc) /\ ValidStructure(doc.members)
    /\ BackupDoc \notin rejected

\* the tagged backup lines of the crontab
TaggedLines == { i \in 1..Len(crontab) : crontab[i].tagged }

\* C30: with no panel command in flight, the crontab has a tagged backup line
\* exactly when config.json has a backup_interval, and the line is for that
\* interval.
C30_CrontabAgreesWithConfig ==
    (command = "none" /\ InFlight = {}) =>
        /\ TaggedLines # {} <=> backup_interval # "none"
        /\ \A i \in TaggedLines : crontab[i].interval = backup_interval

\* C35: a restore that fails for want of database credentials has stopped no
\* service, cleared no data directory and changed no live file.
C35_CredentialsCheckedFirst ==
    (IsRestore /\ error = "NoCredentials") =>
        /\ \A i \in 1..Len(calls) : calls[i].action # "down"
        /\ ~StepTaken("stop") /\ ~StepTaken("copytree")
        /\ live = live0


\* the panel has exited
Exited == pc = "halt"
IsSetup == command = "do-auto-backup-setup"
ConfigCommands == {"run-backup", "do-backup", "do-restore", "do-auto-backup-setup"}

\* C36: without a loadable config.json the four configured commands exit
\* non-zero having run no service command, no dump, no copy and no crontab
\* change; get-db-type prints its result and exits 0 whatever the config is.
C36_ConfigRequired ==
    /\ (~config.present /\ command \in ConfigCommands) =>
          /\ calls = <<>> /\ trace = <<>> /\ dumped = {} /\ imported = {}
          /\ live = live0 /\ crontab = crontab0
          /\ backup_temp_dir = {} /\ temp_dir = {}
          /\ Exited => exitCode = 1
    /\ (command = "get-db-type" /\ Exited) =>
          /\ exitCode = 0
          /\ db_type \in {"SQLite", "MySQL", "Unknown"}
          /\ calls = <<>> /\ trace = <<>>

\* a configured command has exited for want of a configuration
C36_Witness ==
    /\ ~config.present /\ command = "do-auto-backup-setup" /\ Exited
    /\ exitCode = 1


\* the test backup of the setup went through every step without an error
TestBackupPassed == error = "none" /\ TraceHas("upload", TRUE)

\* C32: the non-interactive setup changes the crontab only after its test
\* backup completed without error; without bot token or interval, or with a
\* failed test backup, it returns False, the panel exits non-zero and the
\* crontab is as it was.
C32_CrontabAfterTestBackup ==
    IsSetup =>
        /\ crontab # crontab0 => TestBackupPassed
        /\ TraceHas("crontab", TRUE) => TestBackupPassed
        /\ (config.present /\ Exited
              /\ (~config.telegram \/ backup_interval = "none" \/ error # "none"))
               => /\ result = "False"
                  /\ exitCode = 1
                  /\ crontab = crontab0
                  /\ ~StepTaken("crontab")

\* a setup whose test backup failed has exited
C32_Witness ==
    /\ IsSetup /\ Exited /\ config.telegram /\ backup_interval = "30"
    /\ error # "none" /\ crontab = crontab0 /\ Len(crontab0) = 4

\* C31: after a successful setup the crontab has exactly one line with the
\* identifier, the lines without it that were there and are not blank are kept
\* in their order, and a second setup with the same interval changes nothing.
C31_OneTaggedLine ==
    (IsSetup /\ TraceHas("crontab", TRUE)) =>
        /\ Cardinality({i \in 1..Len(crontab) : crontab[i].tagged}) = 1
        /\ \E i \in 1..Len(crontab) : crontab[i] = cron_command(backup_interval)
        /\ SelectSeq(crontab, LAMBDA line : ~line.tagged)
             = SelectSeq(crontab0, LAMBDA line : ~line.tagged /\ line # BlankLine)
        /\ new_crontab(crontab, backup_interval) = crontab

\* a setup has replaced two earlier lines of its own among other lines
C31_Witness ==
    /\ IsSetup /\ TraceHas("crontab", TRUE) /\ backup_interval = "30"
    /\ crontab0 = <<OtherLine, cron_command("30"), WeeklyLine, cron_command("60")>>
    /\ crontab = <<OtherLine, WeeklyLine, cron_command("30")>>

\* the bot's variables a handler can change
handlerVars == <<bot_tasks, conversational_states, backup_interval, crontab,
                 forwarded, rejected, last_backup_time>>

\* C33: an update from a chat other than admin_id makes no handler act: no
\* panel script is launched, no config or state file written, no
\* conversational state created or consumed.
C33_OnlyAdminActs ==
    [][(event'.chat \in ChatIds \ {admin_id}) => UNCHANGED handlerVars]_vars

\* another chat has sent a message while the admin's restore file is awaited
C33_Witness ==
    /\ event.chat = "other"
    /\ conversational_states[admin_id] = "awaiting_restore_file"
    /\ conversational_states["other"] = "none"

\* C34: a chat has at most one pending conversational state and its next text
\* or document message consumes it, valid or not; do-restore is launched only
\* by a message received while awaiting_restore_file is pending, which that
\* message consumes.
C34_PendingStateConsumed ==
    [][/\ \A chat \in ChatIds :
            (/\ event'.chat = chat /\ event'.kind = "message"
             /\ conversational_states[chat] # "none")
               => conversational_states'[chat] = "none"
       /\ \A t \in TaskIds :
            (bot_tasks'[t].cmd = "do-restore" /\ bot_tasks[t].cmd # "do-restore")
               => /\ event'.kind = "message"
                  /\ conversational_states[event'.chat] = "awaiting_restore_file"
                  /\ conversational_states'[event'.chat] = "none"]_vars

\* C37: last_backup_time changes only as a panel process exits 0: to a
\* timestamp for run-backup, to the restored marker for do-restore; a failed
\* or rejected backup or restore leaves it as it was.
C37_StateOnlyOnSuccess ==
    [][last_backup_time' # last_backup_time =>
         \E t \in TaskIds :
            /\ bot_tasks[t].stage = "running" /\ bot_tasks'[t].stage = "free"
            /\ event' = ProcessExit(0)
            /\ \/ /\ bot_tasks[t].cmd = "run-backup"
                  /\ last_backup_time' = "timestamp"
               \/ /\ bot_tasks[t].cmd = "do-restore"
                  /\ last_backup_time' = "restored"]_vars

\* a backup has succeeded, and a document has been rejected and a panel
\* command has failed since without touching the state
C37_Witness ==
    /\ last_backup_time = "timestamp"
    /\ event = ProcessExit(1)
    /\ rejected # {}

====
